---- MODULE Spec2Model ----
(***************************************************************************)
(* Model of the fusebill client library in its two revisions:              *)
(*   "lazy"    src/unnamed/part_000: a package-level http client, the      *)
(*             cookie jar created inside login();                          *)
(*   "private" src/fusebill.go: the http client and the cookie jar are     *)
(*             fields set by the constructors, login() posts every time.   *)
(* Goroutines call WriteOff, SendRequest and GetInvoiceBalance on shared   *)
(* Fusebill instances; the remote service answers nondeterministically.    *)
(* Spec is one caller issuing any sequence of calls, with the history of   *)
(* each call kept until the next; ConcurrentSpec is all goroutines         *)
(* interleaved at every access to shared state, with no history kept       *)
(* beyond the login step.                                                  *)
(* invoiceID only names the invoice in the URL and the payload and never   *)
(* decides a branch, so it is not tracked.                                 *)
(***************************************************************************)
EXTENDS Integers, FiniteSets, Sequences, TLC

\* ---------------------------------------------------------------- bounds
NumProcs == 2
NumClients == 2
MaxAmount == 1

Procs == 1..NumProcs
Clients == 1..NumClients
Amounts == (0 - 1)..MaxAmount
Revs == {"lazy", "private"}

\* ------------------------------------------------------------ constants
StatusOK == 200
Statuses == {StatusOK, 401, 500}

\* Response bodies as the JSON decoder sees them.
BalanceBody == [json |-> "object", field |-> "number", val |-> 42]
NoFieldBody == [json |-> "object", field |-> "absent", val |-> 0]
BadTypeBody == [json |-> "object", field |-> "string", val |-> 0]
GarbageBody == [json |-> "invalid", field |-> "absent", val |-> 0]
Bodies == {BalanceBody, NoFieldBody, BadTypeBody, GarbageBody}

\* ---------------------------------------------------------------- values
NoJar == 0
NoProc == 0
NilClient == [nil |-> TRUE, Jar |-> NoJar]
HttpClient(jar) == [nil |-> FALSE, Jar |-> jar]

\* Response{}: no body, status code 0.
NoBody == [json |-> "none", field |-> "absent", val |-> 0]

NoErr == [kind |-> "nil", status |-> 0, body |-> NoBody]
Err(k) == [kind |-> k, status |-> 0, body |-> NoBody]
StatusErr(k, s, b) == [kind |-> k, status |-> s, body |-> b]

EmptyResponse == [Body |-> NoBody, StatusCode |-> 0]
NoOutcome == [got |-> "none", status |-> 0, body |-> NoBody, readErr |-> FALSE]
NoRet == [err |-> NoErr, resp |-> EmptyResponse, balance |-> 0]
NoSr == [resp |-> EmptyResponse, err |-> NoErr]

\* What the transport can deliver for one dispatched request: a failure, or
\* a response with the bytes ioutil.ReadAll returns and whether it failed.
Outcomes ==
    {[got |-> "transport", status |-> 0, body |-> NoBody, readErr |-> FALSE]}
    \cup [got : {"response"}, status : Statuses, body : Bodies, readErr : BOOLEAN]

\* The login body is read and discarded, and WriteOff ignores the read error
\* of the body it echoes: only the status and the bytes read matter there.
LoginOutcomes == {o \in Outcomes : o.body \in {NoBody, GarbageBody} /\ ~o.readErr}
WriteOffOutcomes == {o \in Outcomes : ~o.readErr}

VARIABLES
    rev,        \* which revision of the package runs
    observe,    \* whether a call's history outlives its login step
    cookieJar,  \* f.cookieJar: NoJar, or the jar created for instance f
    fClient,    \* f.Client
    client,     \* the package-level `client` of the lazy revision
    urlOk,      \* whether f.BaseUrl parses as a request URL
    hostOk,     \* whether f.Mode.ApiHost parses (lazy revision)
    loggedIn,   \* history: a login POST for f has been answered 200
    posted,     \* history: a login POST for f has been dispatched
    mux,        \* the package-level mutex: its holder, or NoProc
    g           \* each goroutine: its position, call, locals and history

vars == <<rev, observe, cookieJar, fClient, client, urlOk, hostOk, loggedIn, posted, mux, g>>

shared == <<rev, observe, cookieJar, fClient, client, urlOk, hostOk, loggedIn, posted>>

\* A goroutine outside any call.
\*   pc, op, self, amount, err : position, the call and its receiver, locals
\*   jarAtEntry : history, f.cookieJar as login() found it
\*   sent, via  : history, requests dispatched and the jar they went through
\*   loginOut, outcome : history, what the transport delivered
\*   sr, ret    : SendRequest's and the call's return values
IdleRec ==
    [pc |-> "idle", op |-> "none", self |-> 1, amount |-> 0, err |-> NoErr,
     jarAtEntry |-> NoJar, sent |-> {}, via |-> NoJar, loginOut |-> NoOutcome,
     outcome |-> NoOutcome, sr |-> NoSr, ret |-> NoRet]

\* ------------------------------------------------------- pure functions
\* Mutant: zero passes the amount check.
ValidAmountNonNegative(balance) == balance >= 0

\* if balance <= 0 { return errors.New(...) }
ValidAmount(balance) == balance > 0

\* Mutant: login() never returns early.
LoginSkipsNever(r, jar) == FALSE

\* login(): the lazy revision returns nil at once when the jar is present.
LoginSkips(r, jar) == r = "lazy" /\ jar # NoJar

\* login(): the private revision refuses to run without a jar.
LoginRefuses(r, jar) == r = "private" /\ jar = NoJar

\* Mutant: login() treats only server errors as a failed login.
LoginResultServerErrorsOnly(o) ==
    IF o.got = "transport" THEN Err("transport")
    ELSE IF o.status >= 500 THEN Err("auth")
    ELSE NoErr

\* login(): the error after client.PostForm returned.
LoginResult(o) ==
    IF o.got = "transport" THEN Err("transport")
    ELSE IF o.status # StatusOK THEN Err("auth")
    ELSE NoErr

\* Mutant: WriteOff treats only server errors as a failed write-off.
WriteOffResultServerErrorsOnly(o) ==
    IF o.got = "transport" THEN Err("transport")
    ELSE IF o.status >= 500 THEN StatusErr("api", o.status, o.body)
    ELSE NoErr

\* WriteOff(): the error after client.Do returned.
WriteOffResult(o) ==
    IF o.got = "transport" THEN Err("transport")
    ELSE IF o.status # StatusOK THEN StatusErr("api", o.status, o.body)
    ELSE NoErr

\* Mutant: SendRequest hands the body back beside the error.
SendRequestResultKeepsBody(o) ==
    IF o.got = "transport" THEN [resp |-> EmptyResponse, err |-> Err("transport")]
    ELSE IF o.status # StatusOK
        THEN [resp |-> [Body |-> o.body, StatusCode |-> o.status],
              err |-> StatusErr("request", o.status, o.body)]
    ELSE IF o.readErr THEN [resp |-> EmptyResponse, err |-> Err("read")]
    ELSE [resp |-> [Body |-> o.body, StatusCode |-> o.status], err |-> NoErr]

\* SendRequest(): (Response, error) after f.Client.Do returned.
SendRequestResult(o) ==
    IF o.got = "transport" THEN [resp |-> EmptyResponse, err |-> Err("transport")]
    ELSE IF o.status # StatusOK
        THEN [resp |-> EmptyResponse, err |-> StatusErr("request", o.status, o.body)]
    ELSE IF o.readErr THEN [resp |-> EmptyResponse, err |-> Err("read")]
    ELSE [resp |-> [Body |-> o.body, StatusCode |-> o.status], err |-> NoErr]

\* json.Unmarshal into a zeroed Invoice, its error dropped: the field is set
\* only from a syntactically valid object whose outstandingBalance is a number.
Unmarshal(body) ==
    IF body.json = "object" /\ body.field = "number" THEN body.val ELSE 0

\* Mutant: GetInvoiceBalance surfaces a failed decode as an error.
GetInvoiceBalanceResultStrict(r) ==
    IF r.err # NoErr THEN [err |-> r.err, resp |-> EmptyResponse, balance |-> 0]
    ELSE IF r.resp.Body.json = "object" /\ r.resp.Body.field = "number"
        THEN [err |-> NoErr, resp |-> EmptyResponse, balance |-> r.resp.Body.val]
    ELSE [err |-> Err("decode"), resp |-> EmptyResponse, balance |-> 0]

\* GetInvoiceBalance(): (float64, error) from SendRequest's return.
GetInvoiceBalanceResult(r) ==
    IF r.err # NoErr THEN [err |-> r.err, resp |-> EmptyResponse, balance |-> 0]
    ELSE [err |-> NoErr, resp |-> EmptyResponse, balance |-> Unmarshal(r.resp.Body)]

\* The URL SendRequest builds its request from.
RequestUrlOk(f) == IF rev = "lazy" THEN hostOk[f] ELSE urlOk[f]

\* Mutant: SendRequest dispatches with the package-level client.
RequestClientLocPackage(f) == <<"client", 0>>

\* The variable SendRequest reads its http client from: the field f.Client.
RequestClientLoc(f) == <<"f.Client", f>>

\* The variable login() and WriteOff read their http client from: the
\* package-level client (lazy revision) or the field f.Client (private).
SessionClientLoc(f) == IF rev = "lazy" THEN <<"client", 0>> ELSE <<"f.Client", f>>

\* The http client a variable holds.
Deref(loc) == IF loc[1] = "client" THEN client ELSE fClient[loc[2]]

\* The http client login() and WriteOff dispatch with.
SessionClient(f) == Deref(SessionClientLoc(f))

\* Mutant: the error exit of the login step forgets mux.Unlock().
MuxAfterLoginLeaksOnError(p, e) == IF e # NoErr THEN p ELSE NoProc

\* mux.Unlock() on both exits of the login step.
MuxAfterLogin(p, e) == NoProc

\* ----------------------------------------------------------------- Init
\* NewClient (either revision) leaves the jar nil; NewPrivateClient creates
\* it and binds it to f.Client, and hard-codes a well-formed base URL.
Construct ==
    /\ rev \in Revs
    /\ cookieJar \in [Clients -> {NoJar} \cup Clients]
    /\ \A f \in Clients : cookieJar[f] \in {NoJar, f}
    /\ rev = "lazy" => \A f \in Clients : cookieJar[f] = NoJar
    /\ fClient = [f \in Clients |-> HttpClient(cookieJar[f])]
    /\ client = NilClient
    /\ urlOk \in [Clients -> BOOLEAN]
    /\ hostOk \in [Clients -> BOOLEAN]
    /\ rev = "private" => \A f \in Clients : urlOk[f] /\ hostOk[f]
    /\ loggedIn = [f \in Clients |-> FALSE]
    /\ posted = [f \in Clients |-> FALSE]
    /\ mux = NoProc
    /\ g = [p \in Procs |-> IdleRec]

Init == Construct /\ observe = TRUE

\* Concurrent callers, on instances built with well-formed URLs.
InitConcurrent ==
    /\ Construct
    /\ observe = FALSE
    /\ \A f \in Clients : urlOk[f] /\ hostOk[f]

\* The goroutine moves on inside its call.
Goto(p, rec) == g' = [g EXCEPT ![p] = rec]

\* The call returns: its record stays until the goroutine's next call when
\* histories are kept, and is dropped with the stack frame otherwise.
Return(p, rec) ==
    g' = [g EXCEPT ![p] = IF observe THEN [rec EXCEPT !.pc = "done"] ELSE IdleRec]

\* History of the login step, dropped with it unless histories are kept.
AfterLogin(rec) ==
    IF observe THEN rec
    ELSE [rec EXCEPT !.jarAtEntry = NoJar, !.loginOut = NoOutcome, !.sent = {}]

\* History of a dispatch outside the login step.
Dispatched(rec, kind, jar) ==
    IF observe THEN [rec EXCEPT !.sent = @ \cup {kind}, !.via = jar] ELSE rec

\* -------------------------------------------------------------- WriteOff
\* WriteOff entry: the amount check, before anything shared is touched.
WriteOffCall(p, f, a) ==
    /\ g[p].pc \in {"idle", "done"}
    /\ LET c == [IdleRec EXCEPT !.op = "WriteOff", !.self = f, !.amount = a]
       IN  IF ValidAmount(a)
             THEN Goto(p, [c EXCEPT !.pc = "lock"])
             ELSE Return(p, [c EXCEPT !.err = Err("validation"),
                                      !.ret = [NoRet EXCEPT !.err = Err("validation")]])
    /\ UNCHANGED <<shared, mux>>

\* mux.Lock()
Lock(p) ==
    /\ g[p].pc = "lock"
    /\ mux = NoProc
    /\ mux' = p
    /\ Goto(p, [g[p] EXCEPT !.pc = "login_check"])
    /\ UNCHANGED shared

\* login(): the test of f.cookieJar.
LoginCheck(p) ==
    /\ g[p].pc = "login_check"
    /\ LET jar == cookieJar[g[p].self]
           c == [g[p] EXCEPT !.jarAtEntry = jar]
       IN  IF LoginSkips(rev, jar)
             THEN Goto(p, [c EXCEPT !.pc = "unlock", !.err = NoErr])
           ELSE IF LoginRefuses(rev, jar)
             THEN Goto(p, [c EXCEPT !.pc = "unlock", !.err = Err("nojar")])
           ELSE Goto(p, [c EXCEPT !.pc = IF rev = "lazy" THEN "login_jar"
                                                         ELSE "login_post"])
    /\ UNCHANGED <<shared, mux>>

\* login(), lazy revision: f.cookieJar, _ = cookiejar.New(nil)
LoginJar(p) ==
    /\ g[p].pc = "login_jar"
    /\ cookieJar' = [cookieJar EXCEPT ![g[p].self] = g[p].self]
    /\ Goto(p, [g[p] EXCEPT !.pc = "login_client"])
    /\ UNCHANGED <<rev, observe, fClient, client, urlOk, hostOk, loggedIn, posted, mux>>

\* login(), lazy revision: client = &http.Client{Jar: f.cookieJar}
LoginClient(p) ==
    /\ g[p].pc = "login_client"
    /\ client' = HttpClient(cookieJar[g[p].self])
    /\ Goto(p, [g[p] EXCEPT !.pc = "login_post"])
    /\ UNCHANGED <<rev, observe, cookieJar, fClient, urlOk, hostOk, loggedIn, posted, mux>>

\* login(): client.PostForm builds the request and dispatches it.
LoginPost(p) ==
    /\ g[p].pc = "login_post"
    /\ IF urlOk[g[p].self]
         THEN Goto(p, [g[p] EXCEPT !.pc = "login_wait",
                                   !.sent = @ \cup {"login"},
                                   !.via = IF observe
                                             THEN SessionClient(g[p].self).Jar
                                             ELSE @])
         ELSE Goto(p, [g[p] EXCEPT !.pc = "unlock", !.err = Err("url")])
    /\ posted' = IF urlOk[g[p].self] THEN [posted EXCEPT ![g[p].self] = TRUE] ELSE posted
    /\ UNCHANGED <<rev, observe, cookieJar, fClient, client, urlOk, hostOk, loggedIn, mux>>

\* login(): PostForm returns; a 200 leaves the session cookie in the jar.
LoginResponse(p, o) ==
    /\ g[p].pc = "login_wait"
    /\ Goto(p, [g[p] EXCEPT !.pc = "unlock", !.loginOut = o, !.err = LoginResult(o)])
    /\ loggedIn' = IF observe /\ o.got = "response" /\ o.status = StatusOK
                     THEN [loggedIn EXCEPT ![g[p].self] = TRUE]
                     ELSE loggedIn
    /\ UNCHANGED <<rev, observe, cookieJar, fClient, client, urlOk, hostOk, posted, mux>>

\* WriteOff after login(): unlock, return the error or build the request.
Unlock(p) ==
    /\ g[p].pc = "unlock"
    /\ mux' = MuxAfterLogin(p, g[p].err)
    /\ IF g[p].err # NoErr
         THEN Return(p, [g[p] EXCEPT !.ret = [NoRet EXCEPT !.err = g[p].err]])
       ELSE IF ~urlOk[g[p].self]
         THEN Return(p, [g[p] EXCEPT !.err = Err("url"),
                                     !.ret = [NoRet EXCEPT !.err = Err("url")]])
       ELSE Goto(p, AfterLogin([g[p] EXCEPT !.pc = "wo_do"]))
    /\ UNCHANGED shared

\* WriteOff: client.Do(request) reads the client reference and dispatches.
\* In the lazy revision the read is unsynchronised: it sees the reference as
\* it was before or after a concurrent login's write, whichever step the
\* interleaving takes first.
WriteOffDo(p) ==
    /\ g[p].pc = "wo_do"
    /\ IF SessionClient(g[p].self).nil
         THEN Return(p, [g[p] EXCEPT !.err = Err("panic"),
                                     !.ret = [NoRet EXCEPT !.err = Err("panic")]])
         ELSE Goto(p, Dispatched([g[p] EXCEPT !.pc = "wo_wait"], "writeoff",
                                 SessionClient(g[p].self).Jar))
    /\ UNCHANGED <<shared, mux>>

\* WriteOff: client.Do returns.
WriteOffResponse(p, o) ==
    /\ g[p].pc = "wo_wait"
    /\ Return(p, [g[p] EXCEPT !.outcome = o, !.err = WriteOffResult(o),
                              !.ret = [NoRet EXCEPT !.err = WriteOffResult(o)]])
    /\ UNCHANGED <<shared, mux>>

\* ------------------------------------------ SendRequest, GetInvoiceBalance
\* SendRequest has returned r: hand it back as is, or through
\* GetInvoiceBalance's decode.
Finish(p, rec, r) ==
    Return(p, [rec EXCEPT !.sr = r, !.err = r.err,
                          !.ret = IF rec.op = "GetInvoiceBalance"
                                    THEN GetInvoiceBalanceResult(r)
                                    ELSE [err |-> r.err, resp |-> r.resp, balance |-> 0]])

\* SendRequest entry (directly, or from GetInvoiceBalance): http.NewRequest.
SendRequestCall(p, o, f) ==
    /\ g[p].pc \in {"idle", "done"}
    /\ LET c == [IdleRec EXCEPT !.op = o, !.self = f]
       IN  IF RequestUrlOk(f)
             THEN Goto(p, [c EXCEPT !.pc = "sr_do"])
             ELSE Finish(p, c, [resp |-> EmptyResponse, err |-> Err("url")])
    /\ UNCHANGED <<shared, mux>>

\* SendRequest: f.Client.Do(request) reads f.Client and dispatches.
SendRequestDo(p) ==
    /\ g[p].pc = "sr_do"
    /\ Goto(p, Dispatched([g[p] EXCEPT !.pc = "sr_wait"], "request",
                          Deref(RequestClientLoc(g[p].self)).Jar))
    /\ UNCHANGED <<shared, mux>>

\* SendRequest: f.Client.Do returns, the body is read.
SendRequestResponse(p, o) ==
    /\ g[p].pc = "sr_wait"
    /\ Finish(p, [g[p] EXCEPT !.outcome = o], SendRequestResult(o))
    /\ UNCHANGED <<shared, mux>>

\* ------------------------------------------------------------------ Next
Step(p, amounts, requests) ==
    \/ \E f \in Clients, a \in amounts : WriteOffCall(p, f, a)
    \/ Lock(p)
    \/ LoginCheck(p)
    \/ LoginJar(p)
    \/ LoginClient(p)
    \/ LoginPost(p)
    \/ \E o \in LoginOutcomes : LoginResponse(p, o)
    \/ Unlock(p)
    \/ WriteOffDo(p)
    \/ \E o \in WriteOffOutcomes : WriteOffResponse(p, o)
    \/ \E f \in Clients, o \in requests : SendRequestCall(p, o, f)
    \/ SendRequestDo(p)
    \/ \E o \in Outcomes : SendRequestResponse(p, o)

\* One caller, any sequence of calls.
Next == Step(1, Amounts, {"SendRequest", "GetInvoiceBalance"})

\* Every goroutine, interleaved. One rejected and one accepted amount stand
\* for all, and GetInvoiceBalance, which touches shared state only through
\* SendRequest, is left to the sequential specification.
NextConcurrent == \E p \in Procs : Step(p, {0, 1}, {"SendRequest"})

Spec == Init /\ [][Next]_vars

ConcurrentSpec == InitConcurrent /\ [][NextConcurrent]_vars

\* ------------------------------------------------------- memory accesses
LoginSection ==
    {"login_check", "login_jar", "login_client", "login_post", "login_wait", "unlock"}

InLogin(p) == g[p].pc \in LoginSection

\* The shared variables goroutine p's next step writes.
Writes(p) ==
    CASE g[p].pc = "login_jar" -> {<<"f.cookieJar", g[p].self>>}
      [] g[p].pc = "login_client" -> {<<"client", 0>>}
      [] OTHER -> {}

\* The shared variables goroutine p's next step reads.
Reads(p) ==
    CASE g[p].pc = "login_check" -> {<<"f.cookieJar", g[p].self>>}
      [] g[p].pc = "login_client" -> {<<"f.cookieJar", g[p].self>>}
      [] g[p].pc = "login_post" -> {SessionClientLoc(g[p].self)}
      [] g[p].pc = "wo_do" -> {SessionClientLoc(g[p].self)}
      [] g[p].pc = "sr_do" -> {RequestClientLoc(g[p].self)}
      [] OTHER -> {}

\* p's next step writes a variable that q's next step reads or writes. Both
\* steps are enabled in the same state, so neither waits for the other on
\* the mutex and nothing orders the two accesses.
Race(p, q) ==
    /\ p # q
    /\ Writes(p) \cap (Reads(q) \cup Writes(q)) # {}

Done(p) == g[p].pc = "done"

\* The login step of p's WriteOff succeeded: a 200 login response, or the
\* lazy revision found the jar present.
LoginSucceeded(p) ==
    \/ g[p].loginOut.got = "response" /\ g[p].loginOut.status = StatusOK
    \/ rev = "lazy" /\ g[p].jarAtEntry # NoJar

\* ================================================================ claims

\* C1: a WriteOff with amount <= 0 returns a validation error at once: it
\* is never at any later position of the call, dispatches no request and
\* never holds the mutex.
C1_State ==
    \A p \in Procs :
        (g[p].op = "WriteOff" /\ g[p].amount <= 0) =>
            /\ Done(p)
            /\ g[p].ret.err = Err("validation")
            /\ g[p].sent = {}
            /\ mux # p

\* C1: the step that makes such a call leaves the mutex and every
\* instance's session state as they were.
C1_Step ==
    \A p \in Procs :
        (g'[p] # g[p] /\ g'[p].op = "WriteOff" /\ g'[p].amount <= 0) =>
            /\ g[p].pc \in {"idle", "done"}
            /\ mux' = mux
            /\ UNCHANGED <<cookieJar, fClient, client, loggedIn, posted>>

\* C1: WriteOff(invoiceID, amount) with amount <= 0, in any client state and
\* at any point of a sequence of calls, returns a validation error, sends no
\* network request, does not acquire the mutex and leaves the session state
\* unchanged.
C1_NonPositiveAmountRejected == []C1_State /\ [][C1_Step]_vars

C1_Witness ==
    \E p \in Procs :
        /\ Done(p) /\ g[p].op = "WriteOff" /\ g[p].amount <= 0
        /\ g[p].ret.err = Err("validation")
        /\ loggedIn[g[p].self]

\* C2: a WriteOff with amount > 0 whose login POST was answered with a
\* status other than 200 returns the authentication error, and that call
\* never reaches the write-off dispatch.
C2_FailedLoginSendsNoWriteOff ==
    \A p \in Procs :
        (/\ g[p].op = "WriteOff"
         /\ g[p].loginOut.got = "response"
         /\ g[p].loginOut.status # StatusOK) =>
            /\ g[p].pc \in {"unlock", "done"}
            /\ "writeoff" \notin g[p].sent
            /\ g[p].err = Err("auth")
            /\ Done(p) => g[p].ret.err = Err("auth")

C2_Witness ==
    \E p \in Procs :
        /\ Done(p) /\ g[p].op = "WriteOff" /\ g[p].amount > 0
        /\ g[p].loginOut.got = "response" /\ g[p].loginOut.status = 401
        /\ g[p].sent = {"login"}
        /\ g[p].ret.err = Err("auth")

\* C3: between calls, the client holds a session (a cookie jar created by
\* login) only if a login POST for it was answered 200, and no write-off
\* POST is sent for a client before some login of it has succeeded.
C3_SessionOnlyAfterSuccessfulLogin ==
    /\ \A f \in Clients :
          (/\ rev = "lazy"
           /\ cookieJar[f] # NoJar
           /\ ~\E p \in Procs : InLogin(p) /\ g[p].self = f) => loggedIn[f]
    /\ \A p \in Procs :
          "writeoff" \in g[p].sent => loggedIn[g[p].self]

\* C4 as claimed: once the cookie jar is present, the login step returns
\* success at once and sends no login POST.
C4_LoginIdempotent ==
    \A p \in Procs :
        /\ "login" \in g[p].sent => g[p].jarAtEntry = NoJar
        /\ (g[p].pc = "unlock" /\ g[p].jarAtEntry # NoJar) =>
              (g[p].err = NoErr /\ "login" \notin g[p].sent)

\* C4 as amended: in the lazy revision a login step that finds the jar
\* present returns success at once without a login POST, and a login POST
\* is only ever sent by a login step that found no jar; in the private
\* revision, whose jar exists from construction, a login step that finds
\* the jar always sends the login POST.
C4_LoginIdempotentWhereLazy ==
    \A p \in Procs :
        /\ rev = "lazy" =>
              /\ "login" \in g[p].sent => g[p].jarAtEntry = NoJar
              /\ (InLogin(p) /\ g[p].jarAtEntry # NoJar) =>
                    (g[p].pc = "unlock" /\ g[p].err = NoErr
                        /\ "login" \notin g[p].sent)
        /\ rev = "private" =>
              /\ "login" \in g[p].sent => g[p].jarAtEntry # NoJar
              /\ (g[p].pc = "unlock" /\ g[p].jarAtEntry # NoJar) =>
                    "login" \in g[p].sent

C4_Witness ==
    \E p \in Procs :
        /\ rev = "lazy"
        /\ g[p].pc = "unlock" /\ g[p].jarAtEntry # NoJar
        /\ g[p].err = NoErr /\ "login" \notin g[p].sent
        /\ posted[g[p].self]

\* C5: a WriteOff with amount > 0 whose login step succeeded returns nil
\* exactly when the write-off POST was answered 200; any other status gives
\* an error carrying that status and the body, a transport failure the
\* transport error.
C5_WriteOffResultFromResponse ==
    \A p \in Procs :
        (Done(p) /\ g[p].op = "WriteOff" /\ g[p].amount > 0 /\ LoginSucceeded(p)) =>
            /\ g[p].ret.err = NoErr <=>
                  (g[p].outcome.got = "response" /\ g[p].outcome.status = StatusOK)
            /\ (g[p].outcome.got = "response" /\ g[p].outcome.status # StatusOK) =>
                  /\ g[p].ret.err.kind = "api"
                  /\ g[p].ret.err.status = g[p].outcome.status
                  /\ g[p].ret.err.body = g[p].outcome.body
            /\ g[p].outcome.got = "transport" => g[p].ret.err = Err("transport")
            /\ g[p].outcome.got # "none" <=> "writeoff" \in g[p].sent

C5_Witness ==
    \E p \in Procs :
        /\ Done(p) /\ g[p].op = "WriteOff" /\ g[p].amount > 0
        /\ rev = "lazy" /\ g[p].jarAtEntry # NoJar
        /\ g[p].outcome.got = "response" /\ g[p].outcome.status = 500
        /\ g[p].outcome.body = BalanceBody
        /\ g[p].ret.err = StatusErr("api", 500, BalanceBody)

\* The SendRequest calls that dispatched their request and have returned.
Dispatched_SendRequest(p) ==
    /\ Done(p)
    /\ g[p].op \in {"SendRequest", "GetInvoiceBalance"}
    /\ "request" \in g[p].sent

\* C6 as claimed: every dispatched SendRequest that was answered ends in
\* one of two ways, by the status alone: 200 gives the body, status 200 and
\* no error; anything else gives an error with the status and the body, and
\* an empty Response.
C6_TwoOutcomes ==
    \A p \in Procs :
        (Dispatched_SendRequest(p) /\ g[p].outcome.got = "response") =>
            \/ /\ g[p].outcome.status = StatusOK
               /\ g[p].sr.resp = [Body |-> g[p].outcome.body, StatusCode |-> StatusOK]
               /\ g[p].sr.err = NoErr
            \/ /\ g[p].outcome.status # StatusOK
               /\ g[p].sr.resp = EmptyResponse
               /\ g[p].sr.err =
                     StatusErr("request", g[p].outcome.status, g[p].outcome.body)

\* C6 as amended: a response whose body was read in full ends in one of the
\* two ways claimed; a non-200 response gives the error with the status and
\* the bytes read; a transport failure, and a 200 response whose body could
\* not be read, give that error with an empty Response. A non-empty Response
\* never comes with an error.
C6_OutcomesOfSendRequest ==
    \A p \in Procs :
        Dispatched_SendRequest(p) =>
            /\ g[p].outcome.got = "transport" =>
                  (g[p].sr.resp = EmptyResponse /\ g[p].sr.err = Err("transport"))
            /\ (g[p].outcome.got = "response" /\ g[p].outcome.status = StatusOK
                    /\ ~g[p].outcome.readErr) =>
                  /\ g[p].sr.resp =
                        [Body |-> g[p].outcome.body, StatusCode |-> StatusOK]
                  /\ g[p].sr.err = NoErr
            /\ (g[p].outcome.got = "response" /\ g[p].outcome.status = StatusOK
                    /\ g[p].outcome.readErr) =>
                  (g[p].sr.resp = EmptyResponse /\ g[p].sr.err = Err("read"))
            /\ (g[p].outcome.got = "response" /\ g[p].outcome.status # StatusOK) =>
                  /\ g[p].sr.resp = EmptyResponse
                  /\ g[p].sr.err =
                        StatusErr("request", g[p].outcome.status, g[p].outcome.body)
            /\ ~(g[p].sr.resp # EmptyResponse /\ g[p].sr.err # NoErr)

C6_Witness ==
    \E p \in Procs :
        /\ Dispatched_SendRequest(p) /\ g[p].op = "SendRequest"
        /\ g[p].outcome.got = "response" /\ g[p].outcome.status = 500
        /\ g[p].ret.err = StatusErr("request", 500, g[p].outcome.body)
        /\ g[p].ret.resp = EmptyResponse

\* C7: GetInvoiceBalance returns an error exactly when SendRequest did, and
\* then that error with balance 0; otherwise it returns nil with the
\* outstandingBalance decoded from the body, or 0 when the body does not
\* decode or lacks the field.
C7_BalanceFromSendRequest ==
    \A p \in Procs :
        (Done(p) /\ g[p].op = "GetInvoiceBalance") =>
            /\ g[p].ret.err # NoErr <=> g[p].sr.err # NoErr
            /\ g[p].sr.err # NoErr =>
                  (g[p].ret.err = g[p].sr.err /\ g[p].ret.balance = 0)
            /\ g[p].sr.err = NoErr =>
                  /\ g[p].sr.resp.Body = g[p].outcome.body
                  /\ g[p].outcome.body = BalanceBody =>
                        g[p].ret.balance = BalanceBody.val
                  /\ g[p].outcome.body \in {NoFieldBody, BadTypeBody, GarbageBody} =>
                        g[p].ret.balance = 0

C7_Witness ==
    \E p \in Procs :
        /\ Done(p) /\ g[p].op = "GetInvoiceBalance"
        /\ g[p].outcome.got = "response" /\ g[p].outcome.status = StatusOK
        /\ g[p].outcome.body = GarbageBody
        /\ g[p].ret.err = NoErr /\ g[p].ret.balance = 0

\* C8: the mutex is held exactly while one caller is inside its login step,
\* and by that caller; at most one login POST is in flight; the caller that
\* dispatches a write-off POST does not hold it; and in the lazy revision a
\* caller about to send a login POST for an instance is the first to do so.
C8_MutexGuardsLoginStep ==
    /\ \A p \in Procs : InLogin(p) <=> mux = p
    /\ mux # NoProc <=> \E p \in Procs : InLogin(p)
    /\ Cardinality({p \in Procs : g[p].pc = "login_wait"}) <= 1
    /\ \A p \in Procs : g[p].pc \in {"wo_do", "wo_wait"} => mux # p
    /\ \A p \in Procs :
          (rev = "lazy" /\ g[p].pc = "login_post") => ~posted[g[p].self]

C8_Witness ==
    \E p, q \in Procs :
        /\ p # q /\ rev = "lazy" /\ g[p].self = g[q].self
        /\ g[p].pc = "lock" /\ g[q].pc = "unlock" /\ mux = q
        /\ g[q].err # NoErr /\ "login" \in g[q].sent

\* C9: a data race is reachable (C9_Witness), and every race is the one
\* described: a first-time login, holding the mutex, writes the package's
\* http client reference while a caller on another instance, past its login
\* step and not holding the mutex, reads it to dispatch its write-off POST.
C9_RaceIsLoginWriteAgainstDispatchRead ==
    \A p, q \in Procs :
        Race(p, q) =>
            /\ rev = "lazy"
            /\ g[p].pc = "login_client" /\ mux = p
            /\ g[p].jarAtEntry = NoJar
            /\ g[q].pc = "wo_do" /\ mux # q
            /\ g[p].self # g[q].self

C9_Witness == \E p, q \in Procs : Race(p, q)

\* C10: a write-off POST of instance A goes through the http client bound
\* to A's own cookie jar, never one created by another instance's login,
\* and the http client it is dispatched with is never nil.
C10_SessionIsolation ==
    \A p \in Procs :
        /\ "writeoff" \in g[p].sent =>
              (g[p].via = g[p].self /\ g[p].via = cookieJar[g[p].self])
        /\ g[p].ret.err # Err("panic")
====
